---- MODULE Spec2Model ----
(***************************************************************************)
(* CulturalVoting: the round lifecycle of the voting contract and its      *)
(* encrypted-vote tally (src/docs/cultural-voting.md, "Contract Code").    *)
(* Every external function is one action: a call either passes all of its *)
(* require checks and applies its whole effect, or reverts with the reason *)
(* of the first failing check and leaves the contract storage unchanged.   *)
(* Next to it: the BlindAuction example (src/DEVELOPER_GUIDE.md), the      *)
(* PublicDecryptSingleValue example (src/contracts/basic/decrypt) and one  *)
(* run of the create-fhevm-category script, each with a specification of   *)
(* its own that leaves the other components' variables alone.              *)
(***************************************************************************)
EXTENDS Integers, Sequences, FiniteSets, TLC

\* ------------------------------------------------------------------ bounds
MaxTime == 4           \* successful transactions of a run (blocks 1..MaxTime)
MaxProjects == 2       \* projects that get proposed
MaxSnapshotLen == 2    \* longest id list handed to startVotingRound

\* ------------------------------------------------------- program constants
UINT8_MAX == 255
MIN_SCORE == 1
MAX_SCORE == 10

\* ------------------------------------------------------------ input domains
Admin == "admin"
Addr == {"admin", "alice", "bob"}
Rounds == 1..(MaxTime + 1)
ProjectIds == 0..MaxProjects
ScoreInputs == {0, 8, 9, 11}

RECURSIVE SeqsUpTo(_, _)
SeqsUpTo(S, n) ==
    IF n = 0 THEN {<< >>}
    ELSE LET shorter == SeqsUpTo(S, n - 1)
         IN  shorter \cup {Append(q, x) : q \in {t \in shorter : Len(t) = n - 1}, x \in S}

IdLists == SeqsUpTo(ProjectIds, MaxSnapshotLen)

VARIABLES
    currentVotingRound,  \* uint8 public currentVotingRound
    totalProjects,       \* uint8 public totalProjects
    projects,            \* mapping(uint8 => CulturalProject)
    votingRounds,        \* mapping(uint8 => VotingRound)
    votes,               \* mapping(round => projectId => voter => Vote)
    authorizedVoters,    \* mapping(address => bool), as the set of true keys
    requests,            \* the oracle's log of FHE.requestDecryption calls
    delivered,           \* request ids already answered through processResults
    now,                 \* block.timestamp; every mined transaction gets its own block
    lastCall,            \* the last call that was mined
    \* BlindAuction (src/DEVELOPER_GUIDE.md)
    auctionEndTime,      \* uint256 public auctionEndTime
    bids,                \* Bid[] public bids
    bidIndices,          \* mapping(address => uint256), index counted from 0
    highestBidIndex,     \* uint256 public highestBidIndex, counted from 0
    highestBidder,       \* address public highestBidder
    winningBidAmount,    \* uint32 public winningBidAmount
    auctionEnded,        \* bool public auctionEnded
    auctionRequests,     \* the oracle's log of the auction's decryption requests
    \* PublicDecryptSingleValue (src/contracts/basic/decrypt)
    _encryptedValue,     \* euint32 private _encryptedValue
    _decryptedValue,     \* uint32 private _decryptedValue
    _isDecrypted,        \* bool private _isDecrypted
    decryptionRequests,  \* the relayer's log of FHE.requestDecryption calls
    decryptionsAnswered, \* request ids the relayer already answered
    \* create-fhevm-category (a run of the script on a file system)
    rootDir,             \* the files below the repository root, as paths
    outputDir,           \* the output directory: whether it exists, and its entries
    exitCode             \* "none" before the run, then the process exit code

auctionVars == <<auctionEndTime, bids, bidIndices, highestBidIndex, highestBidder,
                 winningBidAmount, auctionEnded, auctionRequests>>

votingVars == <<currentVotingRound, totalProjects, projects, votingRounds, votes,
                authorizedVoters, requests, delivered>>

decryptVars == <<_encryptedValue, _decryptedValue, _isDecrypted,
                 decryptionRequests, decryptionsAnswered>>

scriptVars == <<rootDir, outputDir, exitCode>>

vars == <<votingVars, now, lastCall, auctionVars, decryptVars, scriptVars>>

storage == <<currentVotingRound, totalProjects, projects, votingRounds, votes,
             authorizedVoters>>

\* ------------------------------------------------------------ record shapes
NoHandle == [ct |-> 0]
asEuint8(score) == [ct |-> score]
toBytes32(handle) == handle
Decrypt(handle) == handle.ct

EmptyProject == [proposer |-> "none", isActive |-> FALSE, proposalTime |-> 0]
EmptyVote == [encryptedScore |-> NoHandle, hasVoted |-> FALSE, timestamp |-> 0]
EmptyRound == [projectIds |-> << >>, votingActive |-> FALSE,
               resultsRevealed |-> FALSE, startTime |-> 0, endTime |-> 0,
               voters |-> << >>, winningProjectId |-> 0, maxScore |-> 0]

NoAddress == "0x0"

\* the storage of a BlindAuction that is not part of the deployment
NoAuction ==
    /\ auctionEndTime = 0
    /\ bids = << >>
    /\ bidIndices = [a \in Addr |-> 0]
    /\ highestBidIndex = 0
    /\ highestBidder = NoAddress
    /\ winningBidAmount = 0
    /\ auctionEnded = FALSE
    /\ auctionRequests = << >>

\* the storage of a PublicDecryptSingleValue that is not part of the deployment
NoSingleValue ==
    /\ _encryptedValue = NoHandle
    /\ _decryptedValue = 0
    /\ _isDecrypted = FALSE
    /\ decryptionRequests = << >>
    /\ decryptionsAnswered = {}

\* no run of the category script
NoScriptRun ==
    /\ rootDir = {}
    /\ outputDir = [exists |-> FALSE, entries |-> {}]
    /\ exitCode = "none"

Init ==
    /\ NoAuction
    /\ NoSingleValue
    /\ NoScriptRun
    /\ currentVotingRound = 1
    /\ totalProjects = 0
    /\ projects = [p \in ProjectIds |-> EmptyProject]
    /\ votingRounds = [r \in Rounds |-> EmptyRound]
    /\ votes = [r \in Rounds |-> [p \in ProjectIds |-> [v \in Addr |-> EmptyVote]]]
    /\ authorizedVoters = {Admin}
    /\ requests = << >>
    /\ delivered = {}
    /\ now = 1
    /\ lastCall = "constructor"

\* a call that passes its checks (its ...Check operator is "ok") is mined in
\* block `now`
Mined(op) ==
    /\ lastCall' = op
    /\ now' = now + 1
    /\ UNCHANGED <<auctionVars, decryptVars, scriptVars>>

\* a call that fails a check reverts with that check's reason, the value of
\* its ...Check operator: no storage write, no oracle request
Reverted(op, reason) ==
    /\ reason # "ok"
    /\ UNCHANGED vars

\* ------------------------------------------------------------------ registry
proposeProjectCheck ==
    IF totalProjects = UINT8_MAX THEN "Panic(0x11)" ELSE "ok"

\* mutant: the record is written under the id before the increment
ProposeProject_staleId(caller) ==
    /\ now <= MaxTime
    /\ totalProjects + 1 \in DOMAIN projects
    /\ totalProjects' = totalProjects + 1
    /\ projects' = [projects EXCEPT ![totalProjects] =
                       [proposer |-> caller, isActive |-> TRUE, proposalTime |-> now]]
    /\ Mined("proposeProject")
    /\ UNCHANGED <<currentVotingRound, votingRounds, votes,
                   authorizedVoters, requests, delivered>>

\* the model keeps the records of the ids in DOMAIN projects (ProjectIds from
\* the constructor): a proposal is explored while its id is among them or
\* the counter is at its 8-bit limit
ProposeProject(caller) ==
    /\ now <= MaxTime
    /\ totalProjects + 1 \in DOMAIN projects \/ totalProjects = UINT8_MAX
    /\ IF proposeProjectCheck = "ok"
       THEN /\ totalProjects' = totalProjects + 1
            /\ projects' = [projects EXCEPT ![totalProjects + 1] =
                               [proposer |-> caller, isActive |-> TRUE,
                                proposalTime |-> now]]
            /\ Mined("proposeProject")
            /\ UNCHANGED <<currentVotingRound, votingRounds, votes,
                           authorizedVoters, requests, delivered>>
       ELSE Reverted("proposeProject", proposeProjectCheck)

\* mutant: the modifier lets every caller through
onlyAdmin_anyone(caller) == TRUE

onlyAdmin(caller) == caller = Admin

\* the revert reason of the onlyAdmin modifier
onlyAdminCheck(caller) == IF onlyAdmin(caller) THEN "ok" ELSE "Not authorized"

AuthorizeVoter(caller, voter) ==
    /\ now <= MaxTime
    /\ IF onlyAdmin(caller)
       THEN /\ authorizedVoters' = authorizedVoters \cup {voter}
            /\ Mined("authorizeVoter")
            /\ UNCHANGED <<currentVotingRound, totalProjects, projects,
                           votingRounds, votes, requests, delivered>>
       ELSE Reverted("authorizeVoter", onlyAdminCheck(caller))

RevokeVoter(caller, voter) ==
    /\ now <= MaxTime
    /\ IF onlyAdmin(caller)
       THEN /\ authorizedVoters' = authorizedVoters \ {voter}
            /\ Mined("revokeVoter")
            /\ UNCHANGED <<currentVotingRound, totalProjects, projects,
                           votingRounds, votes, requests, delivered>>
       ELSE Reverted("revokeVoter", onlyAdminCheck(caller))

\* ---------------------------------------------------------- round controller
Round == votingRounds[currentVotingRound]

RECURSIVE AllActive(_, _)
\* the validation loop of startVotingRound over _projectIds[i..]
AllActive(_projectIds, i) ==
    IF i > Len(_projectIds) THEN TRUE
    ELSE projects[_projectIds[i]].isActive /\ AllActive(_projectIds, i + 1)

\* mutant: the check for an empty id list is missing
startVotingRoundCheck_noEmptyCheck(caller, _projectIds) ==
    IF ~onlyAdmin(caller) THEN "Not authorized"
    ELSE IF votingRounds[currentVotingRound].votingActive THEN "Voting already active"
    ELSE IF ~AllActive(_projectIds, 1) THEN "Project not active"
    ELSE "ok"

startVotingRoundCheck(caller, _projectIds) ==
    IF ~onlyAdmin(caller) THEN "Not authorized"
    ELSE IF Round.votingActive THEN "Voting already active"
    ELSE IF ~(Len(_projectIds) > 0) THEN "No projects selected"
    ELSE IF ~AllActive(_projectIds, 1) THEN "Project not active"
    ELSE "ok"

StartVotingRound(caller, _projectIds) ==
    /\ now <= MaxTime
    /\ IF startVotingRoundCheck(caller, _projectIds) = "ok"
       THEN /\ votingRounds' = [votingRounds EXCEPT ![currentVotingRound] =
                   [projectIds |-> _projectIds, votingActive |-> TRUE,
                    resultsRevealed |-> FALSE, startTime |-> now, endTime |-> 0,
                    voters |-> << >>, winningProjectId |-> 0, maxScore |-> 0]]
            /\ Mined("startVotingRound")
            /\ UNCHANGED <<currentVotingRound, totalProjects, projects, votes,
                           authorizedVoters, requests, delivered>>
       ELSE Reverted("startVotingRound", startVotingRoundCheck(caller, _projectIds))

RECURSIVE InList(_, _, _)
\* linear search of list[i..] for x
InList(list, x, i) ==
    IF i > Len(list) THEN FALSE
    ELSE IF list[i] = x THEN TRUE
    ELSE InList(list, x, i + 1)

\* mutant: every project id counts as part of the round
_isProjectInCurrentRound_any(_projectId) == TRUE

_isProjectInCurrentRound(_projectId) == InList(Round.projectIds, _projectId, 1)

_addVoterToRound(voters, _voter) ==
    IF InList(voters, _voter, 1) THEN voters ELSE Append(voters, _voter)

\* mutant: the modifier lets every caller through
onlyAuthorizedVoter_everyone(caller) == TRUE

onlyAuthorizedVoter(caller) == caller \in authorizedVoters

\* mutant: the modifier lets every call through
onlyDuringVoting_always == TRUE

onlyDuringVoting == Round.votingActive

\* mutant: the duplicate-vote check is missing
submitVoteCheck_noDuplicateCheck(caller, _projectId, _score) ==
    IF ~(caller \in authorizedVoters) THEN "Not authorized to vote"
    ELSE IF ~votingRounds[currentVotingRound].votingActive THEN "Voting not active"
    ELSE IF ~(_score >= MIN_SCORE /\ _score <= MAX_SCORE) THEN "Score must be between 1-10"
    ELSE IF ~_isProjectInCurrentRound(_projectId) THEN "Project not in current round"
    ELSE "ok"

\* mutant: the two modifiers run in the opposite order
submitVoteCheck_activeFirst(caller, _projectId, _score) ==
    IF ~votingRounds[currentVotingRound].votingActive THEN "Voting not active"
    ELSE IF ~(caller \in authorizedVoters) THEN "Not authorized to vote"
    ELSE IF ~(_score >= MIN_SCORE /\ _score <= MAX_SCORE) THEN "Score must be between 1-10"
    ELSE IF ~_isProjectInCurrentRound(_projectId) THEN "Project not in current round"
    ELSE IF votes[currentVotingRound][_projectId][caller].hasVoted
         THEN "Already voted for this project"
    ELSE "ok"

submitVoteCheck(caller, _projectId, _score) ==
    IF ~onlyAuthorizedVoter(caller) THEN "Not authorized to vote"
    ELSE IF ~onlyDuringVoting THEN "Voting not active"
    ELSE IF ~(_score >= MIN_SCORE /\ _score <= MAX_SCORE) THEN "Score must be between 1-10"
    ELSE IF ~_isProjectInCurrentRound(_projectId) THEN "Project not in current round"
    ELSE IF votes[currentVotingRound][_projectId][caller].hasVoted
         THEN "Already voted for this project"
    ELSE "ok"

SubmitVote(caller, _projectId, _score) ==
    /\ now <= MaxTime
    /\ IF submitVoteCheck(caller, _projectId, _score) = "ok"
       THEN /\ votes' = [votes EXCEPT ![currentVotingRound][_projectId][caller] =
                   [encryptedScore |-> asEuint8(_score), hasVoted |-> TRUE,
                    timestamp |-> now]]
            /\ votingRounds' = [votingRounds EXCEPT ![currentVotingRound].voters =
                   _addVoterToRound(@, caller)]
            /\ Mined("submitVote")
            /\ UNCHANGED <<currentVotingRound, totalProjects, projects,
                           authorizedVoters, requests, delivered>>
       ELSE Reverted("submitVote", submitVoteCheck(caller, _projectId, _score))

\* ------------------------------------------------------ tally request/callback
RECURSIVE CollectVoters(_, _, _)
\* inner loop of _requestResultsDecryption for one project, voters[j..]
CollectVoters(projectId, voters, j) ==
    IF j > Len(voters) THEN << >>
    ELSE LET voter == voters[j]
             vote == votes[currentVotingRound][projectId][voter]
         IN  IF vote.hasVoted
             THEN <<[projectId |-> projectId, voter |-> voter,
                     ct |-> toBytes32(vote.encryptedScore)]>>
                  \o CollectVoters(projectId, voters, j + 1)
             ELSE CollectVoters(projectId, voters, j + 1)

RECURSIVE CollectProjects(_, _, _)
\* outer loop of _requestResultsDecryption, projectIds[i..]
CollectProjects(projectIds, voters, i) ==
    IF i > Len(projectIds) THEN << >>
    ELSE CollectVoters(projectIds[i], voters, 1)
         \o CollectProjects(projectIds, voters, i + 1)

\* the batch cts that endVotingRound would hand to the oracle now
CurrentBatch == CollectProjects(Round.projectIds, Round.voters, 1)

\* mutant: the round counter is not advanced at a reveal
NextRoundNumber_stuck(round) == round

NextRoundNumber(round) == round + 1

\* mutant: the counter increment of _finalizeResults always overflows
finalizeCheck_blocked == "Panic(0x11)"

finalizeCheck ==
    IF currentVotingRound = UINT8_MAX THEN "Panic(0x11)" ELSE "ok"

\* mutant: the winner fields are written and the counter advanced, but the
\* round is not marked as revealed
_finalizeResults_noReveal(rounds, _winningProject, _maxScore) ==
    /\ votingRounds' = [rounds EXCEPT ![currentVotingRound] =
           [@ EXCEPT !.winningProjectId = _winningProject,
                     !.maxScore = _maxScore]]
    /\ currentVotingRound' = currentVotingRound + 1

\* mutant: the round is marked as revealed but stays the current round
_finalizeResults_sameRound(rounds, _winningProject, _maxScore) ==
    /\ votingRounds' = [rounds EXCEPT ![currentVotingRound] =
           [@ EXCEPT !.winningProjectId = _winningProject,
                     !.maxScore = _maxScore,
                     !.resultsRevealed = TRUE]]
    /\ UNCHANGED currentVotingRound

\* _finalizeResults applied to the rounds mapping as the caller left it
_finalizeResults(rounds, _winningProject, _maxScore) ==
    /\ votingRounds' = [rounds EXCEPT ![currentVotingRound] =
           [@ EXCEPT !.winningProjectId = _winningProject,
                     !.maxScore = _maxScore,
                     !.resultsRevealed = TRUE]]
    /\ currentVotingRound' = NextRoundNumber(currentVotingRound)

\* mutant: the round-state check runs before the admin check
endVotingRoundCheck_activeFirst(caller) ==
    IF ~votingRounds[currentVotingRound].votingActive THEN "Voting not active"
    ELSE IF ~onlyAdmin(caller) THEN "Not authorized"
    ELSE IF votingRounds[currentVotingRound].resultsRevealed THEN "Results already revealed"
    ELSE "ok"

endVotingRoundCheck(caller) ==
    IF ~onlyAdmin(caller) THEN "Not authorized"
    ELSE IF ~Round.votingActive THEN "Voting not active"
    ELSE IF Round.resultsRevealed THEN "Results already revealed"
    ELSE IF Len(CurrentBatch) = 0 THEN finalizeCheck
    ELSE "ok"

EndVotingRound(caller) ==
    /\ now <= MaxTime
    /\ IF endVotingRoundCheck(caller) = "ok"
       THEN LET closed == [votingRounds EXCEPT
                              ![currentVotingRound].votingActive = FALSE,
                              ![currentVotingRound].endTime = now]
                cts == CurrentBatch
            IN  /\ IF Len(cts) > 0
                   THEN /\ requests' = Append(requests,
                               [round |-> currentVotingRound, batch |-> cts])
                        /\ votingRounds' = closed
                        /\ UNCHANGED currentVotingRound
                   ELSE /\ _finalizeResults(closed, 0, 0)
                        /\ UNCHANGED requests
                /\ Mined("endVotingRound")
                /\ UNCHANGED <<totalProjects, projects, votes, authorizedVoters,
                               delivered>>
       ELSE Reverted("endVotingRound", endVotingRoundCheck(caller))

\* mutant: greater-or-equal, a later project with an equal total takes over
IsNewMax_orEqual(projectScore, maxTotalScore) == projectScore >= maxTotalScore

IsNewMax(projectScore, maxTotalScore) == projectScore > maxTotalScore

RECURSIVE SumVoters(_, _, _, _, _)
\* inner loop of processResults for one project, voters[j..];
\* acc = [projectScore, scoreIndex, panic], projectScore a checked uint8
SumVoters(projectId, voters, j, decryptedScores, acc) ==
    IF j > Len(voters) \/ acc.panic THEN acc
    ELSE IF /\ votes[currentVotingRound][projectId][voters[j]].hasVoted
            /\ acc.scoreIndex < Len(decryptedScores)
         THEN LET sum == acc.projectScore + decryptedScores[acc.scoreIndex + 1]
              IN  IF sum > UINT8_MAX
                  THEN [acc EXCEPT !.panic = TRUE]
                  ELSE SumVoters(projectId, voters, j + 1, decryptedScores,
                                 [projectScore |-> sum,
                                  scoreIndex |-> acc.scoreIndex + 1,
                                  panic |-> FALSE])
         ELSE SumVoters(projectId, voters, j + 1, decryptedScores, acc)

RECURSIVE TallyProjects(_, _, _, _, _)
\* outer loop of processResults, projectIds[i..];
\* st = [winningProject, maxTotalScore, scoreIndex, panic]
TallyProjects(projectIds, voters, i, decryptedScores, st) ==
    IF i > Len(projectIds) \/ st.panic THEN st
    ELSE LET projectId == projectIds[i]
             sum == SumVoters(projectId, voters, 1, decryptedScores,
                              [projectScore |-> 0, scoreIndex |-> st.scoreIndex,
                               panic |-> FALSE])
         IN  IF sum.panic THEN [st EXCEPT !.panic = TRUE]
             ELSE TallyProjects(projectIds, voters, i + 1, decryptedScores,
                    IF IsNewMax(sum.projectScore, st.maxTotalScore)
                    THEN [winningProject |-> projectId,
                          maxTotalScore |-> sum.projectScore,
                          scoreIndex |-> sum.scoreIndex, panic |-> FALSE]
                    ELSE [st EXCEPT !.scoreIndex = sum.scoreIndex])

Tally(decryptedScores) ==
    TallyProjects(Round.projectIds, Round.voters, 1, decryptedScores,
                  [winningProject |-> 0, maxTotalScore |-> 0, scoreIndex |-> 0,
                   panic |-> FALSE])

processResultsCheck(requestId, decryptedScores) ==
    IF Tally(decryptedScores).panic THEN "Panic(0x11)" ELSE finalizeCheck

\* the function body, for any caller
processResults(requestId, decryptedScores) ==
    IF processResultsCheck(requestId, decryptedScores) = "ok"
    THEN LET t == Tally(decryptedScores)
         IN  /\ _finalizeResults(votingRounds, t.winningProject, t.maxTotalScore)
             /\ delivered' = delivered \cup {requestId}
             /\ Mined("processResults")
             /\ UNCHANGED <<totalProjects, projects, votes, authorizedVoters,
                            requests>>
    ELSE Reverted("processResults", processResultsCheck(requestId, decryptedScores))

\* a call of processResults by anyone, within the explored blocks
ProcessResults(requestId, decryptedScores) ==
    /\ now <= MaxTime
    /\ processResults(requestId, decryptedScores)

Plaintexts(batch) == [i \in 1..Len(batch) |-> Decrypt(batch[i].ct)]

\* what reaches processResults for a request id: the oracle's answer to an
\* issued request, that answer cut short by one score, or, processResults
\* being callable by anyone, an unsolicited call with no scores
CallbackInputs(requestId) ==
    IF requestId <= Len(requests)
    THEN LET plain == Plaintexts(requests[requestId].batch)
         IN  {plain, SubSeq(plain, 1, Len(plain) - 1)}
    ELSE {<< >>}

RequestIds == 1..(Len(requests) + 1)

\* the decryption oracle answers an issued request it has not answered yet
\* with the plaintexts of the request's ciphertexts; it does so whenever it
\* gets to it, also after the last explored call of a user
OracleCallback(requestId) ==
    /\ requestId \in 1..Len(requests)
    /\ requestId \notin delivered
    /\ processResults(requestId, Plaintexts(requests[requestId].batch))

OracleStep == \E id \in 1..Len(requests) : OracleCallback(id)

\* ------------------------------------------------------------ specifications
RegistryNext ==
    \/ \E caller \in Addr : ProposeProject(caller)
    \/ \E caller \in Addr, voter \in Addr : AuthorizeVoter(caller, voter)
    \/ \E caller \in Addr, voter \in Addr : RevokeVoter(caller, voter)

RoundNext ==
    \/ \E caller \in Addr, ids \in IdLists : StartVotingRound(caller, ids)
    \/ \E caller \in Addr, p \in ProjectIds, s \in ScoreInputs : SubmitVote(caller, p, s)
    \/ \E caller \in Addr : EndVotingRound(caller)
    \/ \E id \in RequestIds : \E ds \in CallbackInputs(id) : ProcessResults(id, ds)

Next == RegistryNext \/ RoundNext

\* the contract from its constructor, every external function callable
Spec == Init /\ [][Next]_vars

\* the deployment the voting and round-completion tests start from: projects
\* 1 and 2 proposed by bob, alice authorized next to the admin, and round 1
\* opened by the admin over both projects (timestamps count from the first
\* explored block)
FixtureIds == <<1, 2>>

RoundInit ==
    /\ NoAuction
    /\ NoSingleValue
    /\ NoScriptRun
    /\ currentVotingRound = 1
    /\ totalProjects = Len(FixtureIds)
    /\ projects = [p \in ProjectIds |->
                      IF p \in 1..Len(FixtureIds)
                      THEN [proposer |-> "bob", isActive |-> TRUE, proposalTime |-> 1]
                      ELSE EmptyProject]
    /\ votingRounds = [r \in Rounds |->
                          IF r = 1
                          THEN [projectIds |-> FixtureIds, votingActive |-> TRUE,
                                resultsRevealed |-> FALSE, startTime |-> 1,
                                endTime |-> 0, voters |-> << >>,
                                winningProjectId |-> 0, maxScore |-> 0]
                          ELSE EmptyRound]
    /\ votes = [r \in Rounds |-> [p \in ProjectIds |-> [v \in Addr |-> EmptyVote]]]
    /\ authorizedVoters = {Admin, "alice"}
    /\ requests = << >>
    /\ delivered = {}
    /\ now = 1
    /\ lastCall = "startVotingRound"

\* the round lifecycle: startVotingRound, submitVote, endVotingRound and the
\* processResults callback, in every order
RoundSpec == RoundInit /\ [][RoundNext]_vars

\* the contract late in its life: 254 projects were proposed (the model keeps
\* the records of the ids in ProjectIds and of the last two 8-bit ids) and
\* 253 rounds were opened and ended without a vote, the last call being the
\* endVotingRound that took the counter to 254, one below its 8-bit limit
LateRounds == (UINT8_MAX - 1)..UINT8_MAX

LateInit ==
    /\ NoAuction
    /\ NoSingleValue
    /\ NoScriptRun
    /\ currentVotingRound = UINT8_MAX - 1
    /\ totalProjects = UINT8_MAX - 1
    /\ projects = [p \in ProjectIds \cup LateRounds |->
                      IF p >= 1 /\ p <= UINT8_MAX - 1
                      THEN [proposer |-> "bob", isActive |-> TRUE, proposalTime |-> 1]
                      ELSE EmptyProject]
    /\ votingRounds = [r \in LateRounds |-> EmptyRound]
    /\ votes = [r \in LateRounds |-> [p \in ProjectIds |-> [v \in Addr |-> EmptyVote]]]
    /\ authorizedVoters = {Admin, "alice"}
    /\ requests = << >>
    /\ delivered = {}
    /\ now = 1
    /\ lastCall = "endVotingRound"

\* every external function callable, next to the limits of the two counters
LateSpec == LateInit /\ [][Next]_vars

\* the round lifecycle when processResults is called by the oracle alone,
\* once for each request; the votes all carry the same valid score, the
\* tally's outcome playing no part in whether a round gets revealed
OracleNext ==
    \/ \E caller \in Addr, ids \in IdLists : StartVotingRound(caller, ids)
    \/ \E caller \in Addr, p \in ProjectIds : SubmitVote(caller, p, MAX_SCORE)
    \/ \E caller \in Addr : EndVotingRound(caller)
    \/ OracleStep

\* ... and the oracle does answer: a callback that stays possible is made
OracleSpec == RoundInit /\ [][OracleNext]_vars /\ WF_vars(OracleStep)

\* ------------------------------------------------------------- BlindAuction
MaxBids == 2           \* bids that get placed

BidAmounts == {0, 5, 9}      \* amounts an array handed to processAuction holds
PlacedAmounts == {5, 9}      \* amounts that get bid
BiddingDurations == 1..MaxBids
Auctioneer == Admin
asEuint32(amount) == [ct |-> amount]

\* constructor(biddingDurationSeconds), deployed by the auctioneer in block 1
AuctionInit ==
    /\ NoSingleValue
    /\ NoScriptRun
    /\ \E biddingDurationSeconds \in BiddingDurations :
          auctionEndTime = 1 + biddingDurationSeconds
    /\ bids = << >>
    /\ bidIndices = [a \in Addr |-> 0]
    /\ highestBidIndex = 0
    /\ highestBidder = NoAddress
    /\ winningBidAmount = 0
    /\ auctionEnded = FALSE
    /\ auctionRequests = << >>
    /\ currentVotingRound = 1
    /\ totalProjects = 0
    /\ projects = [p \in ProjectIds |-> EmptyProject]
    /\ votingRounds = [r \in Rounds |-> EmptyRound]
    /\ votes = [r \in Rounds |-> [p \in ProjectIds |-> [v \in Addr |-> EmptyVote]]]
    /\ authorizedVoters = {Admin}
    /\ requests = << >>
    /\ delivered = {}
    /\ now = 1
    /\ lastCall = "constructor"

\* a call to the auction that passes its checks is mined in block `now`
AuctionMined(op) ==
    /\ lastCall' = op
    /\ now' = now + 1
    /\ UNCHANGED <<votingVars, decryptVars, scriptVars>>

placeBidCheck ==
    IF ~(now < auctionEndTime) THEN "Auction has ended" ELSE "ok"

PlaceBid(caller, amount) ==
    /\ now <= MaxTime
    /\ Len(bids) < MaxBids \/ placeBidCheck # "ok"
    /\ IF placeBidCheck = "ok"
       THEN /\ bids' = Append(bids, [encryptedAmount |-> asEuint32(amount),
                                     bidder |-> caller, bidTime |-> now])
            /\ bidIndices' = [bidIndices EXCEPT ![caller] = Len(bids)]
            /\ AuctionMined("placeBid")
            /\ UNCHANGED <<auctionEndTime, highestBidIndex, highestBidder,
                           winningBidAmount, auctionEnded, auctionRequests>>
       ELSE Reverted("placeBid", placeBidCheck)

requestHighestBidDecryptionCheck(caller) ==
    IF ~(caller = Auctioneer) THEN "Only auctioneer"
    ELSE IF ~(now >= auctionEndTime) THEN "Auction not ended"
    ELSE IF auctionEnded THEN "Already ended"
    ELSE IF ~(Len(bids) > 0) THEN "No bids"
    ELSE "ok"

RequestHighestBidDecryption(caller) ==
    /\ now <= MaxTime
    /\ IF requestHighestBidDecryptionCheck(caller) = "ok"
       THEN /\ auctionRequests' = Append(auctionRequests,
                   [i \in 1..Len(bids) |-> toBytes32(bids[i].encryptedAmount)])
            /\ AuctionMined("requestHighestBidDecryption")
            /\ UNCHANGED <<auctionEndTime, bids, bidIndices, highestBidIndex,
                           highestBidder, winningBidAmount, auctionEnded>>
       ELSE Reverted("requestHighestBidDecryption",
                     requestHighestBidDecryptionCheck(caller))

\* mutant: greater-or-equal, a later bid of the same amount takes over
IsHigherBid_orEqual(amount, maxBid) == amount >= maxBid

IsHigherBid(amount, maxBid) == amount > maxBid

RECURSIVE FindHighest(_, _, _)
\* the loop of processAuction over decryptedBids from index i (counted from
\* 0) on; st = [maxBid, winnerIndex]
FindHighest(decryptedBids, i, st) ==
    IF ~(i < Len(decryptedBids)) THEN st
    ELSE FindHighest(decryptedBids, i + 1,
             IF IsHigherBid(decryptedBids[i + 1], st.maxBid)
             THEN [maxBid |-> decryptedBids[i + 1], winnerIndex |-> i]
             ELSE st)

Highest(decryptedBids) == FindHighest(decryptedBids, 0, [maxBid |-> 0, winnerIndex |-> 0])

\* bids[winnerIndex] is read after the loop: an index past the end of the
\* array is Panic(0x32)
processAuctionCheck(decryptedBids) ==
    IF ~(Len(decryptedBids) = Len(bids)) THEN "Decryption mismatch"
    ELSE IF ~(Highest(decryptedBids).winnerIndex < Len(bids)) THEN "Panic(0x32)"
    ELSE "ok"

ProcessAuction(requestId, decryptedBids) ==
    /\ now <= MaxTime
    /\ IF processAuctionCheck(decryptedBids) = "ok"
       THEN LET h == Highest(decryptedBids)
            IN  /\ highestBidIndex' = h.winnerIndex
                /\ highestBidder' = bids[h.winnerIndex + 1].bidder
                /\ winningBidAmount' = h.maxBid
                /\ auctionEnded' = TRUE
                /\ AuctionMined("processAuction")
                /\ UNCHANGED <<auctionEndTime, bids, bidIndices, auctionRequests>>
       ELSE Reverted("processAuction", processAuctionCheck(decryptedBids))

\* a block without a call to the auction
AuctionIdleBlock ==
    /\ now <= MaxTime
    /\ now' = now + 1
    /\ lastCall' = "none"
    /\ UNCHANGED <<votingVars, auctionVars, decryptVars, scriptVars>>

AuctionPlaintexts == [i \in 1..Len(bids) |-> Decrypt(bids[i].encryptedAmount)]

\* what reaches processAuction: the function is external and has no check of
\* its caller, so any array of amounts: every array with one amount per bid,
\* and the plaintexts of the bids with one amount missing or one too many
AuctionInputs ==
    {ds \in SeqsUpTo(BidAmounts, Len(bids)) : Len(ds) = Len(bids)}
        \cup {SubSeq(AuctionPlaintexts, 1, Len(bids) - 1), Append(AuctionPlaintexts, 0)}
AuctionRequestIds == 1..(Len(auctionRequests) + 1)

AuctionNext ==
    \/ \E caller \in Addr, amount \in PlacedAmounts : PlaceBid(caller, amount)
    \/ \E caller \in Addr : RequestHighestBidDecryption(caller)
    \/ \E id \in AuctionRequestIds, ds \in AuctionInputs : ProcessAuction(id, ds)
    \/ AuctionIdleBlock

AuctionSpec == AuctionInit /\ [][AuctionNext]_vars

\* -------------------------------------------------- PublicDecryptSingleValue
SecretValues == {3, 7, 9}

\* the contract after deployment: it has no constructor, the storage is zero
DecryptInit ==
    /\ NoAuction
    /\ NoScriptRun
    /\ _encryptedValue = NoHandle
    /\ _decryptedValue = 0
    /\ _isDecrypted = FALSE
    /\ decryptionRequests = << >>
    /\ decryptionsAnswered = {}
    /\ currentVotingRound = 1
    /\ totalProjects = 0
    /\ projects = [p \in ProjectIds |-> EmptyProject]
    /\ votingRounds = [r \in Rounds |-> EmptyRound]
    /\ votes = [r \in Rounds |-> [p \in ProjectIds |-> [v \in Addr |-> EmptyVote]]]
    /\ authorizedVoters = {Admin}
    /\ requests = << >>
    /\ delivered = {}
    /\ now = 1
    /\ lastCall = "constructor"

\* a call to the contract that passes its checks is mined in block `now`
DecryptMined(op) ==
    /\ lastCall' = op
    /\ now' = now + 1
    /\ UNCHANGED <<votingVars, auctionVars, scriptVars>>

SetEncryptedValue(caller, inputValue) ==
    /\ now <= MaxTime
    /\ _encryptedValue' = asEuint32(inputValue)
    /\ _isDecrypted' = FALSE
    /\ DecryptMined("setEncryptedValue")
    /\ UNCHANGED <<_decryptedValue, decryptionRequests, decryptionsAnswered>>

requestDecryptionCheck ==
    IF ~(~_isDecrypted) THEN "Value already decrypted" ELSE "ok"

\* the request names the handle stored at the time of the call; what the FHE
\* library does with a handle that was never set is not part of the source,
\* so requests are explored once a value is stored
RequestDecryption(caller) ==
    /\ now <= MaxTime
    /\ _encryptedValue # NoHandle
    /\ IF requestDecryptionCheck = "ok"
       THEN /\ decryptionRequests' = Append(decryptionRequests,
                                            <<toBytes32(_encryptedValue)>>)
            /\ DecryptMined("requestDecryption")
            /\ UNCHANGED <<_encryptedValue, _decryptedValue, _isDecrypted,
                           decryptionsAnswered>>
       ELSE Reverted("requestDecryption", requestDecryptionCheck)

processDecryptionCheck(decryptedValues) ==
    IF ~(Len(decryptedValues) > 0) THEN "No decrypted values" ELSE "ok"

\* the function body, for any caller
processDecryption(requestId, decryptedValues) ==
    IF processDecryptionCheck(decryptedValues) = "ok"
    THEN /\ _decryptedValue' = decryptedValues[1]
         /\ _isDecrypted' = TRUE
         /\ decryptionsAnswered' = decryptionsAnswered \cup {requestId}
         /\ DecryptMined("processDecryption")
         /\ UNCHANGED <<_encryptedValue, decryptionRequests>>
    ELSE Reverted("processDecryption", processDecryptionCheck(decryptedValues))

\* the relayer answers a request it has not answered yet with the plaintexts
\* of the handles the request named; it does so whenever it gets to it, also
\* after the last explored call of a user
RelayerCallback(requestId) ==
    /\ requestId \in 1..Len(decryptionRequests)
    /\ requestId \notin decryptionsAnswered
    /\ processDecryption(requestId,
           [i \in 1..Len(decryptionRequests[requestId]) |->
               Decrypt(decryptionRequests[requestId][i])])

\* the three operations in every order, the callback made by the relayer alone
DecryptNext ==
    \/ \E caller \in Addr, v \in SecretValues : SetEncryptedValue(caller, v)
    \/ \E caller \in Addr : RequestDecryption(caller)
    \/ \E id \in 1..Len(decryptionRequests) : RelayerCallback(id)

DecryptSpec == DecryptInit /\ [][DecryptNext]_vars

\* ----------------------------------------------------- create-fhevm-category
\* a path is the sequence of its names; a directory of the repository exists
\* when a file lies below it
CATEGORIES ==
    ("basic" :> [name |-> "Basic FHE Examples",
                 examples |-> <<"fhe-counter", "equality-comparison",
                                "arithmetic-operations">>])
    @@ ("encryption" :> [name |-> "Encryption Examples",
                         examples |-> <<"encrypt-single-value",
                                        "encrypt-multiple-values">>])
    @@ ("decryption" :> [name |-> "Decryption Examples",
                         examples |-> <<"user-decrypt-single-value",
                                        "public-decrypt-single-value">>])
    @@ ("access-control" :> [name |-> "Access Control Examples",
                             examples |-> <<"access-control", "input-proof">>])
    @@ ("best-practices" :> [name |-> "Best Practices",
                             examples |-> <<"anti-patterns">>])
    @@ ("advanced" :> [name |-> "Advanced FHE Applications",
                       examples |-> <<"blind-auction", "cultural-voting">>])

configFiles == <<"hardhat.config.ts", "tsconfig.json", "package.json", ".gitignore",
                 ".eslintrc.yml", ".prettierrc.yml", ".solhint.json">>

SkippedDirectories == {"node_modules", "artifacts", "cache", "coverage", "types",
                       "dist", "fhevmTemp"}

\* the examples' sources, which the repository the script runs in holds
ExampleFiles ==
    {<<"contracts", "basic", "FHECounter.sol">>, <<"test", "basic", "FHECounter.ts">>}

\* further files the repository may hold
RepositoryFiles ==
    {<<"hardhat.config.ts">>, <<"package.json">>, <<"README.md">>,
     <<"deploy", "deploy.ts">>, <<"deploy", "cache", "deploy.json">>,
     <<"tasks", "accounts.ts">>}

CategoryArguments == DOMAIN CATEGORIES \cup {"unknown"}

\* fs.existsSync for a path of the repository
existsSync(path) ==
    \E f \in rootDir : Len(f) >= Len(path) /\ SubSeq(f, 1, Len(path)) = path

isDirectory(path) ==
    \E f \in rootDir : Len(f) > Len(path) /\ SubSeq(f, 1, Len(path)) = path

\* fs.readdirSync
readdirSync(source) ==
    {f[Len(source) + 1] : f \in {g \in rootDir : isDirectory(source)
                                     /\ Len(g) > Len(source)
                                     /\ SubSeq(g, 1, Len(source)) = source}}

RECURSIVE copyDirectoryRecursive(_)
\* the entries the copy of the directory `source` creates, at the same
\* relative path below the output directory
copyDirectoryRecursive(source) ==
    {source} \cup UNION {
        IF isDirectory(Append(source, item))
        THEN IF item \in SkippedDirectories THEN {}
             ELSE copyDirectoryRecursive(Append(source, item))
        ELSE {Append(source, item)} : item \in readdirSync(source)}

createCategoryProjectCheck(categoryName) ==
    IF categoryName \notin DOMAIN CATEGORIES THEN "Unknown category"
    ELSE IF outputDir.exists THEN "Output directory already exists"
    ELSE "ok"

\* one run of the script, from its start to the end of the process
CreateCategoryProject(categoryName) ==
    /\ exitCode = "none"
    /\ IF createCategoryProjectCheck(categoryName) = "ok"
       THEN /\ outputDir' =
                  [exists |-> TRUE,
                   entries |->
                       {<<configFiles[i]>> : i \in {k \in 1..Len(configFiles) :
                                                       existsSync(<<configFiles[k]>>)}}
                       \cup UNION {IF existsSync(<<dir>>)
                                   THEN copyDirectoryRecursive(<<dir>>)
                                   ELSE {} : dir \in {"deploy", "tasks"}}
                       \cup {<<"contracts">>, <<"test">>}]
            /\ exitCode' = "0"
       ELSE /\ exitCode' = "1"
            /\ UNCHANGED outputDir
    /\ UNCHANGED <<rootDir, votingVars, auctionVars, decryptVars, now, lastCall>>

\* the script is started once, in a repository holding some of the files and
\* with the output directory absent or present
ScriptInit ==
    /\ NoAuction
    /\ NoSingleValue
    /\ rootDir \in {ExampleFiles \cup files : files \in SUBSET RepositoryFiles}
    /\ outputDir \in {[exists |-> e, entries |-> {}] : e \in BOOLEAN}
    /\ exitCode = "none"
    /\ currentVotingRound = 1
    /\ totalProjects = 0
    /\ projects = [p \in ProjectIds |-> EmptyProject]
    /\ votingRounds = [r \in Rounds |-> EmptyRound]
    /\ votes = [r \in Rounds |-> [p \in ProjectIds |-> [v \in Addr |-> EmptyVote]]]
    /\ authorizedVoters = {Admin}
    /\ requests = << >>
    /\ delivered = {}
    /\ now = 1
    /\ lastCall = "constructor"

ScriptNext == \E categoryName \in CategoryArguments : CreateCategoryProject(categoryName)

ScriptSpec == ScriptInit /\ [][ScriptNext]_vars

\* ------------------------------------------------------- states of a round
IsOpen(r) == votingRounds[r].votingActive

\* closed by endVotingRound and waiting for the decryption callback
ClosedPending(r) ==
    /\ ~votingRounds[r].votingActive
    /\ ~votingRounds[r].resultsRevealed
    /\ votingRounds[r].endTime # 0

RevealedNow(r) == ~votingRounds[r].resultsRevealed /\ votingRounds[r].resultsRevealed'

\* the (project, voter) pairs of a batch, in batch order
WalkOf(batch) == [i \in 1..Len(batch) |-> <<batch[i].projectId, batch[i].voter>>]

\* an issued decryption request that processResults was already run for
Answered(id) == id <= Len(requests) /\ id \in delivered

\* the voters on a round's list that have a vote for project p
VotersFor(r, p) ==
    {v \in Addr : /\ votes[r][p][v].hasVoted
                  /\ \E j \in 1..Len(votingRounds[r].voters) : votingRounds[r].voters[j] = v}

RECURSIVE SumScores(_, _, _)
SumScores(r, p, S) ==
    IF S = {} THEN 0
    ELSE LET v == CHOOSE x \in S : TRUE
         IN  Decrypt(votes[r][p][v].encryptedScore) + SumScores(r, p, S \ {v})

\* the summed score of project p in round r
ProjectTotal(r, p) == SumScores(r, p, VotersFor(r, p))

SnapshotTotals(r) ==
    {ProjectTotal(r, votingRounds[r].projectIds[i]) : i \in 1..Len(votingRounds[r].projectIds)}

MaxTotal(r) == CHOOSE m \in SnapshotTotals(r) \cup {0} :
                   \A t \in SnapshotTotals(r) \cup {0} : t <= m

\* the first project in snapshot order that reaches the maximum; 0 without votes
FirstStrictMax(r) ==
    IF MaxTotal(r) = 0 THEN 0
    ELSE LET ids == votingRounds[r].projectIds
             first == CHOOSE i \in 1..Len(ids) :
                          /\ ProjectTotal(r, ids[i]) = MaxTotal(r)
                          /\ \A k \in 1..(i - 1) : ProjectTotal(r, ids[k]) < MaxTotal(r)
         IN  ids[first]

\* ------------------------------------------------------------------- claims
\* A call that fails is a stuttering step (Reverted); the error it fails with
\* is the value of its ...Check operator in the state it is made in.

\* C1: in every reachable state at most one voting round has votingActive = TRUE.
C1_AtMostOneRoundActive ==
    Cardinality({r \in Rounds : votingRounds[r].votingActive}) <= 1

\* C2: a round that is Closed-Pending is changed by no operation other than
\* the decryption callback processResults.
C2_PendingRoundChangedOnlyByCallback ==
    [][\A r \in Rounds :
          (ClosedPending(r) /\ votingRounds'[r] # votingRounds[r])
              => lastCall' = "processResults"]_vars

\* C3: a round is revealed only after it was opened and then closed by
\* endVotingRound (never while still Open, never unopened), and processResults
\* reveals it only as the answer to a not yet answered decryption request that
\* was issued when that round was closed.
C3_RevealOnlyAfterClose ==
    [][\A r \in Rounds :
          RevealedNow(r) =>
              /\ votingRounds'[r].startTime # 0
              /\ votingRounds'[r].endTime # 0
              /\ ~votingRounds'[r].votingActive
              /\ lastCall' = "processResults" =>
                     \E id \in delivered' \ delivered :
                         /\ id <= Len(requests)
                         /\ requests[id].round = r]_vars

\* C4: a second processResults call for a request id that was already
\* answered fails with AlreadyProcessed and changes no round and not the
\* round counter.
C4_SecondCallbackRejected ==
    [][lastCall' = "processResults" =>
       \A id \in RequestIds : \A ds \in CallbackInputs(id) :
          (Answered(id) /\ ProcessResults(id, ds))
              => /\ processResultsCheck(id, ds) = "AlreadyProcessed"
                 /\ UNCHANGED <<votingRounds, currentVotingRound>>]_vars

\* C5: once a round has resultsRevealed = TRUE no later call changes any
\* field of its VotingRound record.
C5_RevealedRoundIsTerminal ==
    [][\A r \in Rounds :
          votingRounds[r].resultsRevealed => votingRounds'[r] = votingRounds[r]]_vars

\* C5 witness: a round was revealed, a later round was opened and a vote was
\* accepted in it.
C5_Witness ==
    /\ lastCall = "submitVote"
    /\ \E r \in Rounds : r < currentVotingRound /\ votingRounds[r].resultsRevealed

\* C6: processResults, given the plaintexts of the closed round's votes in
\* batch order, stores as winner the first project in snapshot order whose
\* summed score is the maximum, and that sum as maxScore.
C6_WinnerIsFirstStrictMax ==
    [][lastCall' = "processResults" =>
       \A id \in RequestIds :
          (/\ ClosedPending(currentVotingRound)
           /\ ProcessResults(id, Plaintexts(CurrentBatch)))
              => /\ votingRounds'[currentVotingRound].winningProjectId
                        = FirstStrictMax(currentVotingRound)
                 /\ votingRounds'[currentVotingRound].maxScore
                        = MaxTotal(currentVotingRound)]_vars

\* C6 witness: a closed round with two different projects of equal, non-zero
\* total was tallied by the callback and the earlier project won.
C6_Witness ==
    /\ lastCall = "processResults"
    /\ \E r \in Rounds :
          LET rnd == votingRounds[r]
          IN  /\ rnd.resultsRevealed /\ ~rnd.votingActive /\ rnd.endTime # 0
              /\ Len(rnd.projectIds) = 2
              /\ rnd.projectIds[1] # rnd.projectIds[2]
              /\ ProjectTotal(r, rnd.projectIds[1]) = ProjectTotal(r, rnd.projectIds[2])
              /\ ProjectTotal(r, rnd.projectIds[1]) > 0
              /\ rnd.winningProjectId = rnd.projectIds[1]
              /\ rnd.maxScore = ProjectTotal(r, rnd.projectIds[1])

\* C7: when the oracle answers a request, processResults walks exactly the
\* (project, voter) sequence of that request's batch, whatever was called
\* between the request and the callback.
C7_CallbackWalksTheBatch ==
    [][lastCall' = "processResults" =>
       \A id \in 1..Len(requests) :
          (id \notin delivered /\ ProcessResults(id, Plaintexts(requests[id].batch)))
              => WalkOf(CurrentBatch) = WalkOf(requests[id].batch)]_vars

\* C8: processResults fails with Mismatch and changes nothing when the number
\* of decrypted scores differs from the size of the request's batch.
C8_LengthMismatchRejected ==
    [][lastCall' = "processResults" =>
       \A id \in 1..Len(requests) : \A ds \in CallbackInputs(id) :
          (Len(ds) # Len(requests[id].batch) /\ ProcessResults(id, ds))
              => /\ processResultsCheck(id, ds) = "Mismatch"
                 /\ UNCHANGED storage]_vars

\* C9 (as claimed): a second submitVote by the same voter for the same project
\* in the same round number always fails with 'Already voted for this project'.
C9_SecondVoteAlwaysAlreadyVoted ==
    \A c \in Addr, p \in ProjectIds, s \in ScoreInputs :
        votes[currentVotingRound][p][c].hasVoted
            => submitVoteCheck(c, p, s) = "Already voted for this project"

\* the second submitVote of a (round, project, voter) fails, and with
\* 'Already voted for this project' when it passes the earlier checks
SecondVoteRejected ==
    \A c \in Addr, p \in ProjectIds, s \in ScoreInputs :
        votes[currentVotingRound][p][c].hasVoted
            => /\ submitVoteCheck(c, p, s) # "ok"
               /\ (/\ onlyAuthorizedVoter(c)
                   /\ onlyDuringVoting
                   /\ s >= MIN_SCORE /\ s <= MAX_SCORE
                   /\ _isProjectInCurrentRound(p))
                      => submitVoteCheck(c, p, s) = "Already voted for this project"

\* C9 (amended): a stored vote is never changed, a second submitVote for the
\* same (round, project, voter) always fails, and its error is 'Already voted
\* for this project' whenever the call passes the checks that run before the
\* duplicate check. Stated over every mined call and the state it leads to
\* (no vote is stored before the first one).
C9_SecondVoteFails ==
    [][now' # now =>
       /\ \A r \in Rounds, p \in ProjectIds, v \in Addr :
             votes[r][p][v].hasVoted => votes'[r][p][v] = votes[r][p][v]
       /\ SecondVoteRejected']_vars

\* C9 witness: a vote is stored in the open round, its voter is still
\* authorized, and other votes were accepted after it.
C9_Witness ==
    /\ lastCall = "submitVote"
    /\ \E c \in Addr, p \in ProjectIds :
          /\ votes[currentVotingRound][p][c].hasVoted
          /\ votes[currentVotingRound][p][c].timestamp < now - 1
          /\ submitVoteCheck(c, p, 8) = "Already voted for this project"

\* C10 (as claimed): submitVote while the current round is not Open fails with
\* 'Voting not active' for every caller, project id and score.
C10_SubmitOutsideOpenNotActive ==
    ~votingRounds[currentVotingRound].votingActive =>
        \A c \in Addr, p \in ProjectIds, s \in ScoreInputs :
            submitVoteCheck(c, p, s) = "Voting not active"

\* C10 (amended): submitVote while the current round is not Open always
\* fails, with 'Voting not active' for an authorized caller and with
\* 'Not authorized to vote' for any other caller.
C10_SubmitOutsideOpenFails ==
    ~votingRounds[currentVotingRound].votingActive =>
        \A c \in Addr, p \in ProjectIds, s \in ScoreInputs :
            submitVoteCheck(c, p, s) = IF c \in authorizedVoters
                                       THEN "Voting not active"
                                       ELSE "Not authorized to vote"

\* C10 witness: the round waits for its decryption callback with votes in it,
\* and there are callers of both kinds.
C10_Witness ==
    /\ ClosedPending(currentVotingRound)
    /\ Len(votingRounds[currentVotingRound].voters) > 0
    /\ \E c \in authorizedVoters : submitVoteCheck(c, 1, 8) = "Voting not active"
    /\ \E c \in Addr : submitVoteCheck(c, 1, 8) = "Not authorized to vote"

\* C11: from a successful endVotingRound until the next successful
\* startVotingRound no submitVote succeeds: endVotingRound leaves the current
\* round not Open, and while the current round is not Open every mined call
\* other than startVotingRound leaves it not Open, stores no vote and adds no
\* voter to any round.
C11_NoVoteBetweenEndAndStart ==
    [][now' # now =>
       /\ lastCall' = "endVotingRound"
              => ~votingRounds'[currentVotingRound'].votingActive
       /\ (~Round.votingActive /\ lastCall' # "startVotingRound")
              => /\ ~votingRounds'[currentVotingRound'].votingActive
                 /\ lastCall' # "submitVote"
                 /\ votes' = votes
                 /\ \A r \in Rounds : votingRounds'[r].voters = votingRounds[r].voters]_vars

\* C11 witness: the round was just closed with alice's vote for project 1 in
\* it; her vote for project 2, acceptable a call earlier, is refused.
C11_Witness ==
    /\ lastCall = "endVotingRound"
    /\ ~Round.votingActive
    /\ votes[currentVotingRound][1]["alice"].hasVoted
    /\ ~votes[currentVotingRound][2]["alice"].hasVoted
    /\ _isProjectInCurrentRound(2)
    /\ submitVoteCheck("alice", 2, 9) = "Voting not active"

\* every id of the list is a registered project that is active
RegisteredActive(ids) ==
    \A i \in 1..Len(ids) : /\ ids[i] >= 1 /\ ids[i] <= totalProjects
                           /\ projects[ids[i]].isActive

\* C12: startVotingRound succeeds exactly when the caller is the admin, the
\* current round is not Open, the id list is non-empty and every id is a
\* registered active project; otherwise it fails with 'Not authorized',
\* 'Voting already active', 'No projects selected' or 'Project not active',
\* each only when its condition is violated.
C12_StartSucceedsExactlyWhenValid ==
    \A caller \in Addr, ids \in IdLists :
        LET res == startVotingRoundCheck(caller, ids)
        IN  /\ res = "ok" <=> /\ caller = Admin
                              /\ ~IsOpen(currentVotingRound)
                              /\ Len(ids) > 0
                              /\ RegisteredActive(ids)
            /\ res \in {"ok", "Not authorized", "Voting already active",
                        "No projects selected", "Project not active"}
            /\ res = "Not authorized" => caller # Admin
            /\ res = "Voting already active" => IsOpen(currentVotingRound)
            /\ res = "No projects selected" => Len(ids) = 0
            /\ res = "Project not active" => ~RegisteredActive(ids)

\* C12 witness: after a reveal the admin opened the next round; a further
\* start by the admin now fails as already active, one by bob as unauthorized.
C12_Witness ==
    /\ lastCall = "startVotingRound"
    /\ currentVotingRound > 1
    /\ Len(Round.projectIds) > 0
    /\ startVotingRoundCheck(Admin, <<1>>) = "Voting already active"
    /\ startVotingRoundCheck("bob", <<1>>) = "Not authorized"

\* C13: endVotingRound on an Open round that received no vote requests no
\* decryption and finalises within the same call: the round is revealed with
\* winningProjectId = 0 and maxScore = 0, the round counter advances by one
\* and the new current round is Idle (not Open, not waiting for a callback).
C13_EndWithoutVotesFinalises ==
    [][(now' # now /\ lastCall' = "endVotingRound" /\ Len(Round.voters) = 0) =>
          /\ requests' = requests
          /\ votingRounds'[currentVotingRound].resultsRevealed
          /\ ~votingRounds'[currentVotingRound].votingActive
          /\ votingRounds'[currentVotingRound].winningProjectId = 0
          /\ votingRounds'[currentVotingRound].maxScore = 0
          /\ currentVotingRound' = currentVotingRound + 1
          /\ ~votingRounds'[currentVotingRound'].votingActive
          /\ ~votingRounds'[currentVotingRound'].resultsRevealed
          /\ votingRounds'[currentVotingRound'].endTime = 0]_vars

\* C13 witness: round 1 was ended without a vote and without a request.
C13_Witness ==
    /\ lastCall = "endVotingRound"
    /\ requests = << >>
    /\ currentVotingRound = 2
    /\ votingRounds[1].resultsRevealed
    /\ votingRounds[1].endTime # 0
    /\ Len(votingRounds[1].voters) = 0

\* C14: endVotingRound succeeds only when called by the admin while the
\* current round is Open: a non-admin caller fails with 'Not authorized', and
\* the admin's call when no round is Open (also right after an
\* endVotingRound) fails with 'Voting not active'.
C14_EndOnlyByAdminWhileOpen ==
    \A caller \in Addr :
        LET res == endVotingRoundCheck(caller)
        IN  /\ res = "ok" => (caller = Admin /\ IsOpen(currentVotingRound))
            /\ caller # Admin => res = "Not authorized"
            /\ (caller = Admin /\ ~IsOpen(currentVotingRound)) => res = "Voting not active"

\* C14 witness: the round was just closed and waits for its callback; a
\* second end by the admin and an end by alice are both refused.
C14_Witness ==
    /\ lastCall = "endVotingRound"
    /\ ClosedPending(currentVotingRound)
    /\ endVotingRoundCheck(Admin) = "Voting not active"
    /\ endVotingRoundCheck("alice") = "Not authorized"

\* submitVote of a caller outside the authorized set fails as unauthorized
UnauthorizedRejected ==
    \A c \in Addr \ authorizedVoters, p \in ProjectIds, s \in ScoreInputs :
        submitVoteCheck(c, p, s) = "Not authorized to vote"

\* C15: an address that is not in the authorized-voter set (never authorized,
\* or revoked) cannot vote: its submitVote fails with 'Not authorized to
\* vote', no vote of it is created and a voter list grows only by an
\* authorized caller.
C15_UnauthorizedCannotVote ==
    [][now' # now =>
       /\ \A r \in Rounds, p \in ProjectIds, v \in Addr \ authorizedVoters :
              votes'[r][p][v] = votes[r][p][v]
       /\ \A r \in Rounds :
              \/ votingRounds'[r].voters = votingRounds[r].voters
              \/ lastCall' = "startVotingRound"
              \/ \E v \in authorizedVoters :
                     votingRounds'[r].voters = Append(votingRounds[r].voters, v)
       /\ UnauthorizedRejected'
       /\ UnauthorizedRejected]_vars

\* C15 witness: the admin, a voter since the constructor, was just revoked
\* while a round is open, and the vote it could cast before is refused.
C15_Witness ==
    /\ lastCall = "revokeVoter"
    /\ Admin \notin authorizedVoters
    /\ Round.votingActive
    /\ _isProjectInCurrentRound(1)
    /\ ~votes[currentVotingRound][1][Admin].hasVoted
    /\ submitVoteCheck(Admin, 1, 8) = "Not authorized to vote"

\* C16 (as claimed): submitVote for a project outside the current snapshot
\* fails with 'Project not in current round' and a score of 0 or above 10
\* fails with 'Score must be between 1-10'.
C16_BadVoteNamedError ==
    \A c \in Addr, p \in ProjectIds, s \in ScoreInputs :
        /\ ~_isProjectInCurrentRound(p)
               => submitVoteCheck(c, p, s) = "Project not in current round"
        /\ (s < MIN_SCORE \/ s > MAX_SCORE)
               => submitVoteCheck(c, p, s) = "Score must be between 1-10"

\* a vote outside the snapshot or the score range always fails; from an
\* authorized caller in an Open round a bad score fails with the score error
\* and a good score for a project outside the snapshot with the project error
BadVoteRejected ==
    \A c \in Addr, p \in ProjectIds, s \in ScoreInputs :
        LET res == submitVoteCheck(c, p, s)
            badScore == s < MIN_SCORE \/ s > MAX_SCORE
            outside == \A i \in 1..Len(Round.projectIds) : Round.projectIds[i] # p
        IN  /\ (badScore \/ outside) => res # "ok"
            /\ (c \in authorizedVoters /\ IsOpen(currentVotingRound))
                  => /\ badScore => res = "Score must be between 1-10"
                     /\ (~badScore /\ outside) => res = "Project not in current round"

\* C16 (amended): every vote is recorded in the current round for a project
\* of that round's snapshot with a score between 1 and 10; a submitVote with
\* a project outside the snapshot or a score outside 1..10 always fails and
\* records nothing, with 'Score must be between 1-10' resp. 'Project not in
\* current round' when the caller is authorized and the round Open (the score
\* is checked first), and with the error of the earlier check otherwise.
C16_VotesInSnapshotWithValidScore ==
    [][now' # now =>
       /\ \A r \in Rounds, p \in ProjectIds, v \in Addr :
              votes'[r][p][v] # votes[r][p][v]
                  => /\ r = currentVotingRound
                     /\ \E i \in 1..Len(Round.projectIds) : Round.projectIds[i] = p
                     /\ Decrypt(votes'[r][p][v].encryptedScore) >= MIN_SCORE
                     /\ Decrypt(votes'[r][p][v].encryptedScore) <= MAX_SCORE
       /\ BadVoteRejected
       /\ BadVoteRejected']_vars

\* C16 witness: a vote was just recorded in an open round; the same voter's
\* votes for project 0 and with score 11 are refused with the named errors.
C16_Witness ==
    /\ lastCall = "submitVote"
    /\ Round.votingActive
    /\ \E v \in authorizedVoters :
          /\ \E p \in ProjectIds : votes[currentVotingRound][p][v].timestamp = now - 1
          /\ submitVoteCheck(v, 0, 8) = "Project not in current round"
          /\ submitVoteCheck(v, 1, 11) = "Score must be between 1-10"

\* a project record exists exactly for the ids 1..totalProjects
RegistryDense ==
    \A p \in DOMAIN projects : projects[p] # EmptyProject <=> (p >= 1 /\ p <= totalProjects)

\* C17: project ids are sequential, 1-based and never reused: totalProjects
\* starts at 0, every mined proposeProject (and no other call) raises it by
\* one and writes the record of the new id, which was empty, and no other
\* record; a record exists exactly for the ids 1..totalProjects.
C17_ProjectIdsSequential ==
    [][now' # now =>
       /\ lastCall = "constructor" => totalProjects = 0
       /\ lastCall' = "proposeProject"
              => /\ totalProjects' = totalProjects + 1
                 /\ projects[totalProjects'] = EmptyProject
                 /\ projects'[totalProjects'] # EmptyProject
                 /\ \A p \in DOMAIN projects \ {totalProjects'} : projects'[p] = projects[p]
       /\ lastCall' # "proposeProject" => UNCHANGED <<totalProjects, projects>>
       /\ RegistryDense
       /\ RegistryDense']_vars

\* C17 witness: two proposals by different callers got the ids 1 and 2.
C17_Witness ==
    /\ lastCall = "proposeProject"
    /\ totalProjects = 2
    /\ projects[1].isActive /\ projects[2].isActive
    /\ projects[1].proposer # projects[2].proposer
    /\ projects[1].proposalTime < projects[2].proposalTime

\* C18: proposeProject always succeeds, however many projects were proposed
\* before: the 8-bit totalProjects counter never makes a proposal fail.
C18_ProposeAlwaysSucceeds ==
    proposeProjectCheck = "ok"

\* the 8-bit round counter does not make a call of processResults fail
RevealNotBlocked ==
    \A id \in RequestIds : \A ds \in CallbackInputs(id) :
        processResultsCheck(id, ds) # "Panic(0x11)"

\* C19: the round number starts at 1, never decreases and increases by
\* exactly one at each reveal and at no other time; the counter never blocks
\* a reveal, and after every reveal the admin can open a new round.
C19_RoundCounterAdvancesAtReveal ==
    [][now' # now =>
       /\ lastCall = "constructor" => currentVotingRound = 1
       /\ currentVotingRound' \in {currentVotingRound, currentVotingRound + 1}
       /\ \A r \in DOMAIN votingRounds :
              /\ RevealedNow(r) => r = currentVotingRound
              /\ r = currentVotingRound
                     => (currentVotingRound' = r + 1 <=> RevealedNow(r))
              /\ RevealedNow(r)
                     => \E ids \in IdLists : startVotingRoundCheck(Admin, ids)' = "ok"
       /\ RevealNotBlocked
       /\ RevealNotBlocked']_vars

\* a decryption was requested for round r: endVotingRound closed it with votes
DecryptionRequested(r) == \E id \in 1..Len(requests) : requests[id].round = r

RECURSIVE FirstOccurrences(_, _)
FirstOccurrences(list, i) ==
    IF i > Len(list) THEN << >>
    ELSE IF \E k \in 1..(i - 1) : list[k] = list[i]
         THEN FirstOccurrences(list, i + 1)
         ELSE <<list[i]>> \o FirstOccurrences(list, i + 1)

\* C21: the snapshot stored by a successful startVotingRound keeps the order
\* of the input and holds each project id at most once, also when the input
\* list repeats an id.
C21_SnapshotDeduplicated ==
    [][now' # now =>
       \A ids \in IdLists :
          StartVotingRound(Admin, ids)
              => votingRounds'[currentVotingRound].projectIds
                     = FirstOccurrences(ids, 1)]_vars

\* C22: the set of authorized voters is changed only by authorizeVoter and
\* revokeVoter called by the admin: a non-admin call fails with
\* 'Not authorized' and changes nothing, and both operations are idempotent
\* (authorizing an authorized address, or revoking an address that is not
\* authorized, succeeds and leaves the set as it was).
C22_AuthorizedSetChangedOnlyByAdmin ==
    [][/\ authorizedVoters' # authorizedVoters
            => lastCall' \in {"authorizeVoter", "revokeVoter"}
       /\ (now' # now /\ lastCall' \in {"authorizeVoter", "revokeVoter"}) =>
            \A c \in Addr, v \in Addr :
               /\ c # Admin => /\ onlyAdminCheck(c) = "Not authorized"
                               /\ ~AuthorizeVoter(c, v)
                               /\ ~RevokeVoter(c, v)
               /\ AuthorizeVoter(Admin, v)
                     => /\ authorizedVoters' = authorizedVoters \cup {v}
                        /\ v \in authorizedVoters => UNCHANGED authorizedVoters
               /\ RevokeVoter(Admin, v)
                     => /\ authorizedVoters' = authorizedVoters \ {v}
                        /\ v \notin authorizedVoters => UNCHANGED authorizedVoters]_vars

\* C22 witness: the admin's first call authorized an address that already
\* was authorized, and the set is the one the constructor left.
C22_Witness ==
    /\ lastCall = "authorizeVoter"
    /\ now = 2
    /\ authorizedVoters = {Admin}

\* C25: the current round never has resultsRevealed = TRUE (a reveal advances
\* the round counter in the same call), so the 'Results already revealed'
\* check of endVotingRound fails for no caller in any reachable state.
C25_CurrentRoundNeverRevealed ==
    /\ ~Round.resultsRevealed
    /\ \A caller \in Addr : endVotingRoundCheck(caller) # "Results already revealed"

\* C25 witness: a round was revealed, and the round after it is the current
\* one, Open, and can be ended by the admin.
C25_Witness ==
    /\ \E r \in DOMAIN votingRounds :
          r + 1 = currentVotingRound /\ votingRounds[r].resultsRevealed
    /\ Round.votingActive
    /\ endVotingRoundCheck(Admin) = "ok"

\* C26: immediately after a successful startVotingRound the round it opened
\* holds no vote (hasVoted is FALSE for every project of its snapshot and
\* every address), so every authorized voter can still cast one vote for
\* each project of the round.
C26_OpenedRoundHasNoVotes ==
    [][(now' # now /\ lastCall' = "startVotingRound") =>
       \A p \in ProjectIds, v \in Addr :
          _isProjectInCurrentRound(p)' =>
             /\ ~votes'[currentVotingRound'][p][v].hasVoted
             /\ v \in authorizedVoters' => submitVoteCheck(v, p, MAX_SCORE)' = "ok"]_vars

\* address v has a stored vote for a project of the current round's snapshot
VotedInCurrentRound(v) ==
    \E i \in 1..Len(Round.projectIds) :
        votes[currentVotingRound][Round.projectIds[i]][v].hasVoted

\* C27: every address with hasVoted = TRUE for the current round and a
\* project of its snapshot is in the round's voter list, and every address
\* in that list has such a vote; so the batch built by endVotingRound holds
\* every vote of the round and is empty exactly when the voter list is empty.
C27_VoterListMatchesVotes ==
    /\ \A v \in Addr : VotedInCurrentRound(v) <=> InList(Round.voters, v, 1)
    /\ \A v \in Addr : \A i \in 1..Len(Round.projectIds) :
          votes[currentVotingRound][Round.projectIds[i]][v].hasVoted
              => \E k \in 1..Len(CurrentBatch) :
                    /\ CurrentBatch[k].projectId = Round.projectIds[i]
                    /\ CurrentBatch[k].voter = v
    /\ Len(CurrentBatch) = 0 <=> Len(Round.voters) = 0

\* ------------------------------------------------------------ a large round
CrowdSize == 25        \* voters that already voted when the run starts

CrowdVoter(i) == "voter" \o ToString(i)
Crowd == {CrowdVoter(i) : i \in 1..CrowdSize}

\* round 1 of the fixture after CrowdSize further addresses were authorized
\* and each of them gave project 1 the maximum score
CrowdInit ==
    /\ NoAuction
    /\ NoSingleValue
    /\ NoScriptRun
    /\ currentVotingRound = 1
    /\ totalProjects = Len(FixtureIds)
    /\ projects = [p \in ProjectIds |->
                      IF p \in 1..Len(FixtureIds)
                      THEN [proposer |-> "bob", isActive |-> TRUE, proposalTime |-> 1]
                      ELSE EmptyProject]
    /\ votingRounds = [r \in Rounds |->
                          IF r = 1
                          THEN [projectIds |-> FixtureIds, votingActive |-> TRUE,
                                resultsRevealed |-> FALSE, startTime |-> 1,
                                endTime |-> 0,
                                voters |-> [i \in 1..CrowdSize |-> CrowdVoter(i)],
                                winningProjectId |-> 0, maxScore |-> 0]
                          ELSE EmptyRound]
    /\ votes = [r \in Rounds |-> [p \in ProjectIds |-> [v \in Addr \cup Crowd |->
                   IF r = 1 /\ p = 1 /\ v \in Crowd
                   THEN [encryptedScore |-> asEuint8(MAX_SCORE), hasVoted |-> TRUE,
                         timestamp |-> 1]
                   ELSE EmptyVote]]]
    /\ authorizedVoters = {Admin, "alice"} \cup Crowd
    /\ requests = << >>
    /\ delivered = {}
    /\ now = 1
    /\ lastCall = "submitVote"

\* the round goes on: further votes, the admin's endVotingRound, and the
\* oracle's callback with the plaintexts of the batch
CrowdNext ==
    \/ \E caller \in Addr, p \in ProjectIds, s \in ScoreInputs : SubmitVote(caller, p, s)
    \/ \E caller \in Addr : EndVotingRound(caller)
    \/ \E id \in 1..Len(requests) : now <= MaxTime /\ OracleCallback(id)

CrowdSpec == CrowdInit /\ [][CrowdNext]_vars

\* the stored votes of round r for project p, over every address
Voted(r, p) == {v \in DOMAIN votes[r][p] : votes[r][p][v].hasVoted}

\* the largest summed score among the projects of round r's snapshot
TrueMaxTotal(r) ==
    LET ids == votingRounds[r].projectIds
        totals == {SumScores(r, ids[i], Voted(r, ids[i])) : i \in 1..Len(ids)} \cup {0}
    IN  CHOOSE m \in totals : \A t \in totals : t <= m

\* C28: for any number of voters, each scoring 1 to 10, the oracle's
\* processResults call with the true plaintexts completes and publishes the
\* exact sum: the 8-bit accumulator neither overflows nor reverts.
C28_TallyNeverOverflows ==
    \A id \in 1..Len(requests) :
       (/\ id \notin delivered
        /\ requests[id].round = currentVotingRound
        /\ ClosedPending(currentVotingRound))
           => /\ processResultsCheck(id, Plaintexts(requests[id].batch)) = "ok"
              /\ Tally(Plaintexts(requests[id].batch)).maxTotalScore
                     = TrueMaxTotal(currentVotingRound)

\* the position (counted from 1) of the first of the largest amounts
FirstMaxIndex(amounts) ==
    CHOOSE i \in 1..Len(amounts) :
        /\ \A k \in 1..Len(amounts) : amounts[k] <= amounts[i]
        /\ \A k \in 1..(i - 1) : amounts[k] < amounts[i]

\* a mined processAuction with the amounts ds records the first of the
\* highest bids as the winner and ends the auction
RecordsFirstHighest(ds) ==
    /\ highestBidIndex' = FirstMaxIndex(ds) - 1
    /\ highestBidder' = bids[FirstMaxIndex(ds)].bidder
    /\ winningBidAmount' = ds[FirstMaxIndex(ds)]
    /\ auctionEnded'

\* C23 as stated: processAuction fails with 'Decryption mismatch' unless it
\* gets exactly one decrypted amount per stored bid, and otherwise records as
\* winner the first bid in placement order with the maximum amount (its
\* bidder and amount) and sets auctionEnded.
C23_ProcessAuctionRecordsWinner ==
    /\ [](\A ds \in AuctionInputs :
             /\ Len(ds) # Len(bids) => processAuctionCheck(ds) = "Decryption mismatch"
             /\ Len(ds) = Len(bids) => processAuctionCheck(ds) = "ok")
    /\ [][(now' # now /\ lastCall' = "processAuction") =>
          \A id \in AuctionRequestIds, ds \in AuctionInputs :
             ProcessAuction(id, ds) => RecordsFirstHighest(ds)]_vars

\* C23, amended: ... and otherwise, when at least one bid is stored, records
\* the first bid with the maximum amount and sets auctionEnded; with no
\* stored bid and no amount the call fails on the read of bids[0] and
\* records nothing.
C23_ProcessAuctionRecordsWinnerOfBids ==
    /\ [](\A ds \in AuctionInputs :
             /\ Len(ds) # Len(bids) => processAuctionCheck(ds) = "Decryption mismatch"
             /\ (Len(ds) = Len(bids) /\ Len(bids) > 0) => processAuctionCheck(ds) = "ok"
             /\ (Len(ds) = Len(bids) /\ Len(bids) = 0) => processAuctionCheck(ds) = "Panic(0x32)")
    /\ [][(now' # now /\ lastCall' = "processAuction") =>
          \A id \in AuctionRequestIds, ds \in AuctionInputs :
             ProcessAuction(id, ds) => Len(bids) > 0 /\ RecordsFirstHighest(ds)]_vars

\* C23 witness: two bids of the same amount were placed, and processAuction
\* recorded the earlier one as the winner.
C23_Witness ==
    /\ lastCall = "processAuction"
    /\ Len(bids) = 2
    /\ bids[1].encryptedAmount = bids[2].encryptedAmount
    /\ bids[1].bidder # bids[2].bidder
    /\ auctionEnded
    /\ highestBidIndex = 0
    /\ highestBidder = bids[1].bidder
    /\ winningBidAmount = Decrypt(bids[1].encryptedAmount)
    /\ winningBidAmount > 0

\* C30: the outcome of the auction is final: once auctionEnded is TRUE no
\* later call (placeBid, requestHighestBidDecryption or processAuction)
\* changes highestBidder, highestBidIndex or winningBidAmount.
C30_OutcomeIsFinal ==
    [][auctionEnded =>
          UNCHANGED <<highestBidder, highestBidIndex, winningBidAmount>>]_vars

\* C29: whenever getDecryptedValue reports the value as available
\* (_isDecrypted = TRUE), the stored decrypted value is the plaintext of the
\* encrypted value stored now, under every interleaving of setEncryptedValue,
\* requestDecryption and the relayer's processDecryption: a callback for a
\* request made for an earlier value never marks a newer value as decrypted.
C29_DecryptedValueIsCurrent ==
    _isDecrypted => _decryptedValue = Decrypt(_encryptedValue)

\* C24: a successful create-fhevm-category run for a known category and an
\* output directory that did not exist produces a project with the contract
\* and test files of every example of the category, and a generated README.
C24_CategoryProjectHasExamples ==
    [][\A categoryName \in DOMAIN CATEGORIES :
          (CreateCategoryProject(categoryName) /\ exitCode' = "0")
              => /\ <<"README.md">> \in outputDir'.entries
                 /\ \A i \in 1..Len(CATEGORIES[categoryName].examples) :
                       /\ \E e \in outputDir'.entries : Len(e) > 1 /\ e[1] = "contracts"
                       /\ \E e \in outputDir'.entries : Len(e) > 1 /\ e[1] = "test"]_vars
====
